---- MODULE Spec2Model ----
(***************************************************************************)
(* Coordinate placement and iterative refinement of the face composer.     *)
(*                                                                         *)
(* The model covers the adjustment resolvers of src/tools/*.py and         *)
(* src/webapp/app.py and the refinement loops that drive them.             *)
(*                                                                         *)
(* Representation.                                                         *)
(*  - A scale is kept in hundredths: 0.2 is 20, the step 0.05 is 5, the    *)
(*    floor 0.1 is 10.  Every scale and step of the sources is a multiple  *)
(*    of 0.01, so the decimal arithmetic of the program is exact here.     *)
(*  - A coordinate model is a Python dict whose values are 3-tuples or     *)
(*    nested dicts {'left': tuple, 'right': tuple}.  Dicts are mutable     *)
(*    objects reached through references, so they live in `heap`; a        *)
(*    tuple is an immutable value and is stored inline.  An entry is       *)
(*    [ref |-> 0, v |-> <<x, y, scale>>] for a tuple and                   *)
(*    [ref |-> id, v |-> <<>>] for a reference to the dict object id.      *)
(*    (json.loads turns tuples into lists; the code only unpacks them,     *)
(*    so both are sequences here.)                                         *)
(***************************************************************************)
EXTENDS Integers, Sequences, FiniteSets, TLC

VARIABLES
    variant,            \* which refinement program runs
    max_iterations,     \* caller-supplied iteration budget
    pc,                 \* position of the loop
    iteration,          \* loop variable of `for iteration in range(...)`
    heap,               \* live dict objects: id -> [key -> entry]
    current_positions,  \* reference to the current coordinate model
    result_ref,         \* reference returned by the resolver, 0 if none pending
    last_adjustments,   \* adjustment batch of the pending resolver call
    call_input,         \* value of the resolver's argument when it was called
    last_rendered,      \* value of the model composed by the latest render
    iteration_images,   \* round numbers of the images rendered so far
    adjustment_history, \* round numbers of the history entries
    calls,              \* number of external-model calls made
    last_response,      \* the latest answer of the external model, as parsed
    best_score,         \* hill climb: best similarity score so far
    stop_reason,        \* why the loop ended, "" while running
    emitted,            \* web: notifications handed to progress_callback
    returned,           \* CLI: what the function returned
    canvas_size,        \* FaceComposer.canvas_size, <<w, h>>
    canvas_center,      \* FaceComposer / PartPlacementCalculator canvas_center
    layers,             \* FaceComposer.layers
    composer_call,      \* the latest call on the composer and its arguments
    composer_result,    \* what that call returned
    compose_calls,      \* number of calls made on the composer instance
    active_streams,     \* web: is the session's queue registered
    stream_queue,       \* web: contents of the session's queue.Queue
    worker_pc,          \* web: position of the session's worker thread
    stream_pc,          \* web: position of the event_stream generator
    yielded,            \* web: statuses the generator has sent to the client
    heartbeats,         \* web: heartbeats sent since the last notification
    fn_call,            \* the latest call of a utility function, its arguments
    fn_result,          \* what that call returned or raised
    clock,              \* web server: wall-clock time in whole seconds
    sessions,           \* web server: the requests handled, with their workers
    all_streams,        \* web server: active_streams, stream_id -> queue
    files               \* web server: the files written, with their writers

loop_vars == <<variant, max_iterations, pc, iteration, heap, current_positions,
               result_ref, last_adjustments, call_input, last_rendered,
               iteration_images, adjustment_history, calls, last_response,
               best_score, stop_reason, emitted, returned>>

composer_vars == <<canvas_size, canvas_center, layers, composer_call,
                   composer_result, compose_calls>>

stream_vars == <<active_streams, stream_queue, worker_pc, stream_pc, yielded,
                 heartbeats>>

util_vars == <<fn_call, fn_result>>

server_vars == <<clock, sessions, all_streams, files>>

vars == <<loop_vars, composer_vars, stream_vars, util_vars, server_vars>>

----------------------------------------------------------------------------
(* Bounds of the exploration *)

\* largest iteration budget a caller passes to a Gemini loop
MaxIterations == 5
\* largest budget passed to hill_climb_optimize
MaxHillIters == 1
\* most categories in one adjustment batch
MaxBatch == 2
\* similarity scores are 0..MaxScore
MaxScore == 1
\* most calls made on one FaceComposer instance
MaxComposeCalls == 2
\* most progress notifications of one worker that reach the queue
MaxNotifications == 2
\* most heartbeats one SSE stream sends
MaxHeartbeats == 2
\* most refinement rounds of a worker of the web server
MaxRounds == 2
\* the last second of the web server's clock
MaxClock == 1

----------------------------------------------------------------------------
(* Program constants *)

\* max(0.1, ...) in every resolver
SCALE_FLOOR == 10
\* min(1.0, ...) in the Gemini loop resolvers
SCALE_CEIL == 100
SCALE_MIN == 10
SCALE_MAX == 200
\* dynamic_feedback_refiner.py safety thresholds
MIN_EYE_DISTANCE == 25
MAX_EYE_DISTANCE == 70
MOUTH_SCALE_CAP == 40
\* app.py: max_iterations = 5
WEB_MAX_ITERATIONS == 5

None == "none"

FULL_POSITION_STEPS ==
    [up |-> <<0, -5>>, down |-> <<0, 5>>, left |-> <<-5, 0>>, right |-> <<5, 0>>,
     up_slight |-> <<0, -3>>, down_slight |-> <<0, 3>>,
     left_slight |-> <<-3, 0>>, right_slight |-> <<3, 0>>]

VERTICAL_POSITION_STEPS ==
    [up |-> <<0, -5>>, down |-> <<0, 5>>,
     up_slight |-> <<0, -3>>, down_slight |-> <<0, 3>>]

\* the mutated table: the slight steps are as large as the normal ones
SCALE_STEPS_coarse ==
    [bigger |-> 5, smaller |-> -5, bigger_slight |-> 5, smaller_slight |-> -5]

SCALE_STEPS ==
    [bigger |-> 5, smaller |-> -5, bigger_slight |-> 3, smaller_slight |-> -3]

\* the mutated table: the members do not move by opposite deltas
SYMMETRICAL_STEPS_lopsided ==
    [closer |-> <<-3, 5>>, wider |-> <<3, -5>>,
     closer_big |-> <<-5, 5>>, wider_big |-> <<5, -5>>]

SYMMETRICAL_STEPS ==
    [closer |-> <<-3, 3>>, wider |-> <<3, -3>>,
     closer_big |-> <<-5, 5>>, wider_big |-> <<5, -5>>]

GeminiVariants == {"iterative", "improved", "dynamic", "web"}
CliVariants == {"iterative", "improved", "dynamic"}
SpacingVariants == {"improved", "dynamic"}
Variants == GeminiVariants \cup {"hill"}

----------------------------------------------------------------------------
(* Heap of dict objects *)

Tuple(x, y, s) == [ref |-> 0, v |-> <<x, y, s>>]
Ref(id) == [ref |-> id, v |-> <<>>]

Abs(n) == IF n < 0 THEN -n ELSE n

\* the smallest object id not in use
NextFree(used) ==
    CHOOSE n \in 1..(Cardinality(used) + 1) :
        n \notin used /\ \A m \in 1..(n - 1) : m \in used

SymKeys(d) == {k \in DOMAIN d : d[k].ref # 0}

\* the value an entry denotes: [single |-> tuple] or [left, right |-> tuple]
Placement(h, e) ==
    IF e.ref = 0 THEN [single |-> e.v]
    ELSE [left |-> h[e.ref]["left"].v, right |-> h[e.ref]["right"].v]

Value(h, r) == [c \in DOMAIN h[r] |-> Placement(h, h[r][c])]

IsSymmetric(p) == "left" \in DOMAIN p
Spacing(p) == Abs(p.left[1] - p.right[1])

\* objects reachable from a model reference
Reach(h, r) == {r} \cup {h[r][k].ref : k \in SymKeys(h[r])}

\* garbage collection: keep the objects in `live`, numbered 1..n in their
\* old order (object ids are names the program never observes)
Rank(live, id) == Cardinality({j \in live : j <= id})
compact(h, live) ==
    [n \in 1..Cardinality(live) |->
        LET id == CHOOSE j \in live : Rank(live, j) = n
        IN  [k \in DOMAIN h[id] |->
                IF h[id][k].ref = 0 THEN h[id][k]
                ELSE Ref(Rank(live, h[id][k].ref))]]

\* the initial coordinate model shared by every Gemini loop
InitialRef == 1
InitialHeap ==
    (1 :> [hair |-> Tuple(200, 200, 100), eye |-> Ref(2), eyebrow |-> Ref(3),
           nose |-> Tuple(200, 230, 20), mouth |-> Tuple(200, 255, 25),
           ear |-> Ref(4), outline |-> Tuple(200, 200, 100),
           acc |-> Tuple(200, 180, 30), beard |-> Tuple(200, 300, 40),
           glasses |-> Tuple(200, 215, 50)])
    @@ (2 :> [left |-> Tuple(225, 215, 20), right |-> Tuple(175, 215, 20)])
    @@ (3 :> [left |-> Tuple(225, 185, 20), right |-> Tuple(175, 185, 20)])
    @@ (4 :> [left |-> Tuple(250, 220, 28), right |-> Tuple(150, 220, 28)])

InitialPositions == Value(InitialHeap, InitialRef)

RECURSIVE copy_nested(_, _, _)
copy_nested(h, top, todo) ==
    IF todo = {} THEN h
    ELSE LET k == CHOOSE c \in todo : TRUE
             id == NextFree(DOMAIN h)
         IN  copy_nested((id :> h[h[top][k].ref]) @@ [h EXCEPT ![top][k] = Ref(id)],
                         top, todo \ {k})

\* a copy that shares the nested left/right dicts with its source
shallow_copy(h, r) ==
    LET top == NextFree(DOMAIN h)
    IN  [heap |-> (top :> h[r]) @@ h, ref |-> top]

\* new_positions = json.loads(json.dumps(current_positions))
json_copy(h, r) ==
    LET top == NextFree(DOMAIN h)
        h1  == (top :> h[r]) @@ h
    IN  [heap |-> copy_nested(h1, top, SymKeys(h[r])), ref |-> top]

----------------------------------------------------------------------------
(* Adjustment resolvers *)

Adj(p, s, m) == [position |-> p, scale |-> s, symmetrical |-> m]

\* the mutated clamp: the floor is lost
clamp_scale_no_floor(lo, hi, s) == IF s > hi THEN hi ELSE s

\* max(lo, min(hi, s))
clamp_scale(lo, hi, s) ==
    LET m == IF s < hi THEN s ELSE hi
    IN  IF lo > m THEN lo ELSE m

\* x, y = x + dx, y + dy for a known position operation
move(t, pos_adj, steps) ==
    IF pos_adj \in DOMAIN steps
    THEN <<t[1] + steps[pos_adj][1], t[2] + steps[pos_adj][2], t[3]>>
    ELSE t

\* scale = max(lo, min(hi, scale + delta)) for a known scale operation
rescale(t, scale_adj, lo, hi) ==
    IF scale_adj \in DOMAIN SCALE_STEPS
    THEN <<t[1], t[2], clamp_scale(lo, hi, t[3] + SCALE_STEPS[scale_adj])>>
    ELSE t

adjust_tuple(t, adj, lo, hi) ==
    LET m == rescale(move(t, adj.position, FULL_POSITION_STEPS), adj.scale, lo, hi)
    IN  Tuple(m[1], m[2], m[3])

\* one pass of the body of `for category, adj_info in adjustments.items()`
\* of apply_relative_adjustments (iterative_face_refiner.py, app.py)
relative_entry(h, new, category, adj) ==
    IF category \notin DOMAIN h[new] THEN h
    ELSE LET cur == h[new][category]
         IN  IF cur.ref # 0
             THEN [h EXCEPT
                     ![cur.ref]["left"] =
                         adjust_tuple(h[cur.ref]["left"].v, adj, SCALE_FLOOR, SCALE_CEIL),
                     ![cur.ref]["right"] =
                         adjust_tuple(h[cur.ref]["right"].v, adj, SCALE_FLOOR, SCALE_CEIL)]
             ELSE [h EXCEPT
                     ![new][category] = adjust_tuple(cur.v, adj, SCALE_FLOOR, SCALE_CEIL)]

\* the symmetric branch shared by the two spacing resolvers, after any
\* safety check: spacing, else joint move; then scale from the old scales
symmetric_adjust(h, id, adj) ==
    LET L  == h[id]["left"].v
        R  == h[id]["right"].v
        h1 == IF adj.symmetrical \in DOMAIN SYMMETRICAL_STEPS
              THEN [h EXCEPT
                      ![id]["left"]  = Tuple(L[1] + SYMMETRICAL_STEPS[adj.symmetrical][1], L[2], L[3]),
                      ![id]["right"] = Tuple(R[1] + SYMMETRICAL_STEPS[adj.symmetrical][2], R[2], R[3])]
              ELSE IF adj.position \in DOMAIN VERTICAL_POSITION_STEPS
              THEN [h EXCEPT
                      ![id]["left"]  = Tuple(L[1] + VERTICAL_POSITION_STEPS[adj.position][1],
                                             L[2] + VERTICAL_POSITION_STEPS[adj.position][2], L[3]),
                      ![id]["right"] = Tuple(R[1] + VERTICAL_POSITION_STEPS[adj.position][1],
                                             R[2] + VERTICAL_POSITION_STEPS[adj.position][2], R[3])]
              ELSE h
        L1 == h1[id]["left"].v
        R1 == h1[id]["right"].v
    IN  IF adj.scale \in DOMAIN SCALE_STEPS
        THEN [h1 EXCEPT
                ![id]["left"]  = Tuple(L1[1], L1[2],
                                   clamp_scale(SCALE_FLOOR, SCALE_CEIL, L[3] + SCALE_STEPS[adj.scale])),
                ![id]["right"] = Tuple(R1[1], R1[2],
                                   clamp_scale(SCALE_FLOOR, SCALE_CEIL, R[3] + SCALE_STEPS[adj.scale]))]
        ELSE h1

\* one pass of the loop body of apply_improved_adjustments
improved_entry(h, new, category, adj) ==
    IF category \notin DOMAIN h[new] THEN h
    ELSE LET cur == h[new][category]
         IN  IF cur.ref # 0
             THEN symmetric_adjust(h, cur.ref, adj)
             ELSE LET m == rescale(move(cur.v, adj.position, VERTICAL_POSITION_STEPS),
                                   adj.scale, SCALE_FLOOR, SCALE_CEIL)
                  IN  [h EXCEPT ![new][category] = Tuple(m[1], m[2], m[3])]

\* the safety check of apply_dynamic_adjustments on the old distance
safety_skip(symmetrical_adj, old_distance) ==
    \/ symmetrical_adj \in {"closer", "closer_big"} /\ old_distance <= MIN_EYE_DISTANCE
    \/ symmetrical_adj \in {"wider", "wider_big"} /\ old_distance >= MAX_EYE_DISTANCE

\* the scale of a single part in apply_dynamic_adjustments
dynamic_single_scale(category, new_scale) ==
    IF category = "mouth" /\ new_scale > MOUTH_SCALE_CAP THEN MOUTH_SCALE_CAP
    ELSE IF new_scale < SCALE_FLOOR THEN SCALE_FLOOR
    ELSE new_scale

\* one pass of the loop body of apply_dynamic_adjustments
dynamic_entry(h, new, category, adj) ==
    IF category \notin DOMAIN h[new] THEN h
    ELSE LET cur == h[new][category]
         IN  IF cur.ref # 0
             THEN IF safety_skip(adj.symmetrical,
                                 Abs(h[cur.ref]["left"].v[1] - h[cur.ref]["right"].v[1]))
                  THEN h
                  ELSE symmetric_adjust(h, cur.ref, adj)
             ELSE LET m == move(cur.v, adj.position, VERTICAL_POSITION_STEPS)
                      s == IF adj.scale \in DOMAIN SCALE_STEPS
                           THEN dynamic_single_scale(category, m[3] + SCALE_STEPS[adj.scale])
                           ELSE m[3]
                  IN  [h EXCEPT ![new][category] = Tuple(m[1], m[2], s)]

\* _parse_side_key and one pass of the loop body of face_refiner's resolver;
\* a key is [category, side], side None when the key has no ".left"/".right"
hill_entry(h, new, key, adj) ==
    IF key.category \notin DOMAIN h[new] THEN h
    ELSE LET cur == h[new][key.category]
             targets == IF key.side \in {"left", "right"} THEN {key.side}
                        ELSE {"left", "right"}
         IN  IF cur.ref # 0
             THEN [h EXCEPT ![cur.ref] =
                     [sd \in DOMAIN h[cur.ref] |->
                        IF sd \in targets
                        THEN adjust_tuple(h[cur.ref][sd].v, adj, SCALE_MIN, SCALE_MAX)
                        ELSE h[cur.ref][sd]]]
             ELSE [h EXCEPT ![new][key.category] =
                     adjust_tuple(cur.v, adj, SCALE_MIN, SCALE_MAX)]

entry_of(v, h, new, e) ==
    CASE v = "improved" -> improved_entry(h, new, e.category, e.adj)
      [] v = "dynamic"  -> dynamic_entry(h, new, e.category, e.adj)
      [] v = "hill"     -> hill_entry(h, new, e, e.adj)
      [] OTHER          -> relative_entry(h, new, e.category, e.adj)

\* does the resolver of variant v pass over entry e without touching model m
Skipped(v, m, e) ==
    \/ e.category \notin DOMAIN m
    \/ /\ v = "dynamic"
       /\ IsSymmetric(m[e.category])
       /\ safety_skip(e.adj.symmetrical, Spacing(m[e.category]))

\* the mutated loop: a skipped entry ends the whole batch
RECURSIVE resolve_until_skip(_, _, _, _)
resolve_until_skip(v, h, new, batch) ==
    IF batch = <<>> THEN h
    ELSE IF Skipped(v, Value(h, new), Head(batch)) THEN h
    ELSE resolve_until_skip(v, entry_of(v, h, new, Head(batch)), new, Tail(batch))

\* for category, adj_info in adjustments.items(): ...
RECURSIVE resolve_batch(_, _, _, _)
resolve_batch(v, h, new, batch) ==
    IF batch = <<>> THEN h
    ELSE resolve_batch(v, entry_of(v, h, new, Head(batch)), new, Tail(batch))

\* the resolver of variant v applied to the model at reference r
apply_adjustments(v, h, r, batch) ==
    LET c == json_copy(h, r)
    IN  [heap |-> resolve_batch(v, c.heap, c.ref, batch), ref |-> c.ref]

----------------------------------------------------------------------------
(* What the external model may answer *)

Entry(c, a) == [category |-> c, adj |-> a]

\* the adjustment entries a scripted response draws from
StubEntries ==
    { Entry("eye", Adj(None, None, "closer")),
      Entry("eye", Adj(None, None, "closer_big")),
      Entry("eye", Adj(None, "smaller", "closer")),
      Entry("nose", Adj(None, "smaller", None)),
      Entry("hair", Adj(None, "bigger", None)),
      Entry("hat", Adj("up", None, None)) }

\* the order in which a scripted response lists its categories
CategoryRank == [hat |-> 1, eye |-> 2, nose |-> 3, hair |-> 4]

\* a dict has one entry per key; responses list them in CategoryRank order
DistinctKeys(b) ==
    \A i, j \in 1..Len(b) :
        i < j => CategoryRank[b[i].category] < CategoryRank[b[j].category]

Batches ==
    {b \in UNION {[1..n -> StubEntries] : n \in 0..MaxBatch} : DistinctKeys(b)}

\* the parts hill_climb_optimize tries, as candidate keys
HillParts == {"eye", "mouth"}
HillKeys ==
    UNION {IF IsSymmetric(InitialPositions[c])
           THEN {[category |-> c, side |-> "left"], [category |-> c, side |-> "right"]}
           ELSE {[category |-> c, side |-> None]} : c \in HillParts}
HillAdjustments ==
    {Adj(mv, None, None) : mv \in DOMAIN FULL_POSITION_STEPS}
    \cup {Adj(None, sca, None) : sca \in DOMAIN SCALE_STEPS}

----------------------------------------------------------------------------
(* The refinement loops *)

NoModel == [nothing |-> [single |-> <<0, 0, 0>>]]

Note(st, it, url, pos) ==
    [status |-> st, iteration |-> it, image_url |-> url, has_positions |-> pos]

\* progress_callback(data), a no-op outside the web variant
Emit(notes) == IF variant = "web" THEN emitted \o notes ELSE emitted

Response(parsed, satisfied, empty) ==
    [parsed |-> parsed, satisfied |-> satisfied, empty |-> empty]
NoResponse == Response(FALSE, FALSE, FALSE)

ErrorReasons == {"render_failure", "comparison_failure", "call_exception",
                 "empty_response", "parse_failure", "init_failure"}

\* the mutated guard: one round too many
loop_continues_off_by_one(it, max) == it <= max

\* for iteration in range(max_iterations)
loop_continues(it, max) == it < max

\* the mutated check: an empty adjustments map does not stop the loop
loop_stop_satisfied_only(v, satisfied, adjustments, stop_needed) == satisfied

\* if satisfied or not adjustments [or stop_needed]: break
loop_stop(v, satisfied, adjustments, stop_needed) ==
    \/ satisfied
    \/ adjustments = <<>>
    \/ v = "dynamic" /\ stop_needed

\* the mutated handler: a failed round is skipped and the loop goes on
error_exit_continue(v) == "loop"

\* `break` in the CLI loops, `raise` to the outer handler in the web worker
error_exit(v) == "report"

NoCall == [op |-> "none"]
NoResult == [kind |-> "none"]

\* no FaceComposer call is being observed: a fresh default instance
ComposerIdle ==
    /\ canvas_size = <<400, 400>>
    /\ canvas_center = <<200, 200>>
    /\ layers = <<>>
    /\ composer_call = NoCall
    /\ composer_result = NoResult
    /\ compose_calls = 0

\* no SSE session is being observed
StreamIdle ==
    /\ active_streams = FALSE
    /\ stream_queue = <<>>
    /\ worker_pc = "idle"
    /\ stream_pc = "idle"
    /\ yielded = <<>>
    /\ heartbeats = 0

\* no utility function is being observed
UtilIdle ==
    /\ fn_call = NoCall
    /\ fn_result = NoResult

\* the requests observed on the web server
SessionNames == {"A", "B"}

NoSession == [kind |-> "none", pc |-> "idle", stream_id |-> 0, ts |-> 0,
              round |-> 0, positions |-> <<>>, iteration_images |-> <<>>]

\* the web server has handled no request
ServerIdle ==
    /\ clock = 0
    /\ sessions = [s \in SessionNames |-> NoSession]
    /\ all_streams = <<>>
    /\ files = {}

Init ==
    /\ variant \in Variants
    /\ max_iterations \in
          IF variant = "web" THEN {WEB_MAX_ITERATIONS}
          ELSE IF variant = "hill" THEN 0..MaxHillIters
          ELSE {0, 1, MaxIterations}
    /\ pc = "start"
    /\ iteration = 0
    /\ heap = InitialHeap
    /\ current_positions = InitialRef
    /\ result_ref = 0
    /\ last_adjustments = <<>>
    /\ call_input = NoModel
    /\ last_rendered = NoModel
    /\ iteration_images = <<>>
    /\ adjustment_history = <<>>
    /\ calls = 0
    /\ last_response = NoResponse
    /\ best_score = 0
    /\ stop_reason = ""
    /\ emitted = <<>>
    /\ returned = ""
    /\ ComposerIdle
    /\ StreamIdle
    /\ UtilIdle
    /\ ServerIdle

\* the original image or the parts cannot be loaded
StartFails ==
    /\ pc = "start"
    /\ stop_reason' = "init_failure"
    /\ IF variant = "web"
       THEN pc' = error_exit(variant) /\ returned' = returned
       ELSE pc' = "done" /\ returned' = "None"
    /\ UNCHANGED <<composer_vars, stream_vars, util_vars, server_vars, variant, max_iterations, last_response, iteration, heap, current_positions,
                   result_ref, last_adjustments, call_input, last_rendered,
                   iteration_images, adjustment_history, calls, best_score, emitted>>

StartLoads ==
    /\ pc = "start"
    /\ pc' = IF variant = "hill" THEN "hill_init" ELSE "loop"
    /\ emitted' = Emit(<<Note("started", 0, 0, FALSE)>>)
    /\ UNCHANGED <<composer_vars, stream_vars, util_vars, server_vars, variant, max_iterations, last_response, iteration, heap, current_positions,
                   result_ref, last_adjustments, call_input, last_rendered,
                   iteration_images, adjustment_history, calls, best_score,
                   stop_reason, returned>>

\* hill_climb_optimize up to the loop: copy, compose, score
HillInit ==
    /\ pc = "hill_init"
    /\ LET c == json_copy(heap, current_positions)
       IN  /\ heap' = c.heap
           /\ current_positions' = c.ref
           /\ last_rendered' = Value(c.heap, c.ref)
    /\ best_score' \in 0..MaxScore
    /\ pc' = "loop"
    /\ UNCHANGED <<composer_vars, stream_vars, util_vars, server_vars, variant, max_iterations, last_response, iteration, result_ref, last_adjustments,
                   call_input, iteration_images, adjustment_history, calls,
                   stop_reason, emitted, returned>>

\* no landmarks in the original image: RuntimeError, the caller returns
HillNoLandmarks ==
    /\ pc = "hill_init"
    /\ stop_reason' = "init_failure"
    /\ returned' = "None"
    /\ pc' = "done"
    /\ UNCHANGED <<composer_vars, stream_vars, util_vars, server_vars, variant, max_iterations, last_response, iteration, heap, current_positions,
                   result_ref, last_adjustments, call_input, last_rendered,
                   iteration_images, adjustment_history, calls, best_score, emitted>>

LoopHead ==
    /\ pc = "loop"
    /\ IF loop_continues(iteration, max_iterations)
       THEN /\ iteration' = iteration + 1
            /\ pc' = IF variant = "hill" THEN "trial" ELSE "render"
            /\ emitted' = Emit(<<Note("composing", iteration + 1, 0, FALSE)>>)
            /\ stop_reason' = stop_reason
       ELSE /\ iteration' = iteration
            /\ pc' = "report"
            /\ emitted' = emitted
            /\ stop_reason' = "budget"
    /\ UNCHANGED <<composer_vars, stream_vars, util_vars, server_vars, variant, max_iterations, last_response, heap, current_positions, result_ref,
                   last_adjustments, call_input, last_rendered, iteration_images,
                   adjustment_history, calls, best_score, returned>>

RenderOk ==
    /\ pc = "render"
    /\ iteration_images' = Append(iteration_images, iteration)
    /\ last_rendered' = Value(heap, current_positions)
    /\ emitted' = Emit(<<Note("iteration_image", iteration, iteration, FALSE),
                         Note("analyzing", iteration, 0, FALSE)>>)
    /\ pc' = "request"
    /\ UNCHANGED <<composer_vars, stream_vars, util_vars, server_vars, variant, max_iterations, last_response, iteration, heap, current_positions,
                   result_ref, last_adjustments, call_input, adjustment_history,
                   calls, best_score, stop_reason, returned>>

\* the composer returns None or raises, or the image cannot be saved
RenderFails ==
    /\ pc = "render"
    /\ stop_reason' = "render_failure"
    /\ pc' = error_exit(variant)
    /\ UNCHANGED <<composer_vars, stream_vars, util_vars, server_vars, variant, max_iterations, last_response, iteration, heap, current_positions,
                   result_ref, last_adjustments, call_input, last_rendered,
                   iteration_images, adjustment_history, calls, best_score,
                   emitted, returned>>

\* iterative_face_refiner only: the side-by-side comparison image fails
ComparisonFails ==
    /\ pc = "render"
    /\ variant = "iterative"
    /\ iteration_images' = Append(iteration_images, iteration)
    /\ last_rendered' = Value(heap, current_positions)
    /\ stop_reason' = "comparison_failure"
    /\ pc' = error_exit(variant)
    /\ UNCHANGED <<composer_vars, stream_vars, util_vars, server_vars, variant, max_iterations, last_response, iteration, heap, current_positions,
                   result_ref, last_adjustments, call_input, adjustment_history,
                   calls, best_score, emitted, returned>>

\* generate_content raises, answers with no text, or with text that is not JSON
RequestFails(reason) ==
    /\ pc = "request"
    /\ calls' = calls + 1
    /\ last_response' = NoResponse
    /\ stop_reason' = reason
    /\ pc' = error_exit(variant)
    /\ UNCHANGED <<composer_vars, stream_vars, util_vars, server_vars, variant, max_iterations, iteration, heap, current_positions,
                   result_ref, last_adjustments, call_input, last_rendered,
                   iteration_images, adjustment_history, best_score, emitted, returned>>

CallRaises == RequestFails("call_exception")
EmptyResponse == RequestFails("empty_response")
ParseFails == RequestFails("parse_failure")

\* a parsed response: history entry (CLI), notification (web), then the
\* stop check and, when the loop goes on, the resolver call
Feedback(satisfied, adjustments, stop_needed) ==
    /\ pc = "request"
    /\ calls' = calls + 1
    /\ last_response' = Response(TRUE, satisfied, adjustments = <<>>)
    /\ adjustment_history' =
          IF variant \in CliVariants THEN Append(adjustment_history, iteration)
          ELSE adjustment_history
    /\ emitted' = Emit(<<Note("adjustment_result", iteration, 0, FALSE)>>)
    /\ IF loop_stop(variant, satisfied, adjustments, stop_needed)
       THEN /\ stop_reason' = IF satisfied THEN "satisfied"
                              ELSE IF adjustments = <<>> THEN "empty_adjustments"
                              ELSE "stop_needed"
            /\ pc' = "report"
            /\ UNCHANGED <<heap, result_ref, last_adjustments, call_input>>
       ELSE /\ LET r == apply_adjustments(variant, heap, current_positions, adjustments)
               IN  heap' = r.heap /\ result_ref' = r.ref
            /\ last_adjustments' = adjustments
            /\ call_input' = Value(heap, current_positions)
            /\ pc' = "assign"
            /\ stop_reason' = stop_reason
    /\ UNCHANGED <<composer_vars, stream_vars, util_vars, server_vars, variant, max_iterations, iteration, current_positions,
                   last_rendered, iteration_images, best_score, returned>>

FeedbackStep ==
    \E satisfied \in BOOLEAN, adjustments \in Batches,
       stop_needed \in (IF variant = "dynamic" THEN BOOLEAN ELSE {FALSE}) :
        Feedback(satisfied, adjustments, stop_needed)

\* the mutated comparison: a candidate that scores the same is adopted too
improving_scores_or_equal(best) == best..MaxScore

\* if sc > trial_best[0]: the scores a candidate needs to be adopted
improving_scores(best) == (best + 1)..MaxScore

\* hill climb: some single candidate scores strictly higher and is adopted
HillAdopt ==
    /\ pc = "trial"
    /\ \E key \in HillKeys, adj \in HillAdjustments, sc \in improving_scores(best_score) :
         LET batch == <<[category |-> key.category, side |-> key.side, adj |-> adj]>>
             r == apply_adjustments(variant, heap, current_positions, batch)
         IN  /\ heap' = r.heap
             /\ result_ref' = r.ref
             /\ last_adjustments' = batch
             /\ best_score' = sc
    /\ call_input' = Value(heap, current_positions)
    /\ pc' = "assign"
    /\ UNCHANGED <<composer_vars, stream_vars, util_vars, server_vars, variant, max_iterations, last_response, iteration, current_positions,
                   last_rendered, iteration_images, adjustment_history, calls,
                   stop_reason, emitted, returned>>

\* hill climb: no candidate improves the score
HillNoImprovement ==
    /\ pc = "trial"
    /\ stop_reason' = "no_improvement"
    /\ pc' = "report"
    /\ UNCHANGED <<composer_vars, stream_vars, util_vars, server_vars, variant, max_iterations, last_response, iteration, heap, current_positions,
                   result_ref, last_adjustments, call_input, last_rendered,
                   iteration_images, adjustment_history, calls, best_score,
                   emitted, returned>>

\* current_positions = <resolver result>: the old model is dropped, except
\* for the initial model, which the caller's snapshot keeps alive
Assign ==
    /\ pc = "assign"
    /\ LET live == Reach(heap, result_ref) \cup Reach(heap, InitialRef)
       IN  /\ current_positions' = Rank(live, result_ref)
           /\ heap' = compact(heap, live)
    /\ result_ref' = 0
    /\ last_adjustments' = <<>>
    /\ call_input' = NoModel
    /\ IF variant = "hill"
       THEN /\ iteration_images' = Append(iteration_images, iteration)
            /\ last_rendered' = Value(heap, result_ref)
       ELSE UNCHANGED <<iteration_images, last_rendered>>
    /\ pc' = "loop"
    /\ UNCHANGED <<composer_vars, stream_vars, util_vars, server_vars, variant, max_iterations, last_response, iteration, adjustment_history, calls,
                   best_score, stop_reason, emitted, returned>>

\* what the caller gets: the return value, or the terminal notification
Report ==
    /\ pc = "report"
    /\ returned' =
          CASE variant = "iterative" -> "positions_and_images"
            [] variant = "hill"      -> "positions_score_images"
            [] variant = "web"       -> returned
            [] OTHER                 -> "None"
    /\ emitted' =
          IF stop_reason \in ErrorReasons
          THEN Emit(<<Note("error", 0, 0, FALSE)>>)
          ELSE IF stop_reason = "budget"
          THEN Emit(<<Note("finished", max_iterations,
                           IF iteration_images = <<>> THEN 0
                           ELSE iteration_images[Len(iteration_images)], TRUE)>>)
          ELSE Emit(<<Note("finished", iteration, iteration, TRUE)>>)
    /\ pc' = "done"
    /\ UNCHANGED <<composer_vars, stream_vars, util_vars, server_vars, variant, max_iterations, last_response, iteration, heap, current_positions,
                   result_ref, last_adjustments, call_input, last_rendered,
                   iteration_images, adjustment_history, calls, best_score, stop_reason>>

Next ==
    \/ StartFails
    \/ StartLoads
    \/ HillInit
    \/ HillNoLandmarks
    \/ LoopHead
    \/ RenderOk
    \/ RenderFails
    \/ ComparisonFails
    \/ CallRaises
    \/ EmptyResponse
    \/ ParseFails
    \/ FeedbackStep
    \/ HillAdopt
    \/ HillNoImprovement
    \/ Assign
    \/ Report

Spec == Init /\ [][Next]_vars

----------------------------------------------------------------------------
(* One resolver call on a drawn model and a drawn adjustment *)

\* half the spacing of the eyes, and the mouth scale, of the drawn models;
\* a negative half gap is a model whose right member has the larger x, as
\* the ears that generate_initial_positions derives from landmarks
EyeHalfGaps == {-25, 10, 15, 25, 35}
MouthScales == {10, 25, 38, 100}

ResolveHeap(g, ms) ==
    [InitialHeap EXCEPT ![1]["mouth"] = Tuple(200, 255, ms),
                        ![2]["left"]  = Tuple(200 + g, 215, 20),
                        ![2]["right"] = Tuple(200 - g, 215, 20)]

ResolveHeaps == {ResolveHeap(g, ms) : g \in EyeHalfGaps, ms \in MouthScales}

OpsSet(a) ==
    Cardinality({k \in {"position", "scale", "symmetrical"} : a[k] # None})

\* adj_info dicts with at most two of position, scale, symmetrical set
AdjVocabulary ==
    {a \in {Adj(p, sc, m) : p \in DOMAIN FULL_POSITION_STEPS \cup {None},
                            sc \in DOMAIN SCALE_STEPS \cup {None},
                            m \in DOMAIN SYMMETRICAL_STEPS \cup {None}} :
        OpsSet(a) <= 2}

ResolveCategories == {"eye", "mouth", "hair", "hat"}

\* the entries of a one-entry batch; the hill climb's keys carry a side
ResolveEntries(v) ==
    IF v = "hill"
    THEN {[category |-> c, side |-> sd, adj |-> a] :
             c \in ResolveCategories, sd \in {None, "left", "right"},
             a \in {b \in AdjVocabulary : b.symmetrical = None /\ OpsSet(b) = 1}}
    ELSE {Entry(c, a) : c \in ResolveCategories, a \in AdjVocabulary}

ResolveInit ==
    /\ variant \in Variants
    /\ max_iterations = 0
    /\ pc = "resolve"
    /\ iteration = 0
    /\ heap \in ResolveHeaps
    /\ current_positions = InitialRef
    /\ result_ref = 0
    /\ last_adjustments = <<>>
    /\ call_input = NoModel
    /\ last_rendered = NoModel
    /\ iteration_images = <<>>
    /\ adjustment_history = <<>>
    /\ calls = 0
    /\ last_response = NoResponse
    /\ best_score = 0
    /\ stop_reason = ""
    /\ emitted = <<>>
    /\ returned = ""
    /\ ComposerIdle
    /\ StreamIdle
    /\ UtilIdle
    /\ ServerIdle

\* new_positions = apply_..._adjustments(current_positions, {category: adj_info})
ResolveCall ==
    /\ pc = "resolve"
    /\ \E e \in ResolveEntries(variant) :
         LET r == apply_adjustments(variant, heap, current_positions, <<e>>)
         IN  /\ heap' = r.heap
             /\ result_ref' = r.ref
             /\ last_adjustments' = <<e>>
    /\ call_input' = Value(heap, current_positions)
    /\ pc' = "assign"
    /\ UNCHANGED <<composer_vars, stream_vars, util_vars, server_vars, variant, max_iterations, iteration,
                   current_positions, last_rendered, iteration_images,
                   adjustment_history, calls, last_response, best_score,
                   stop_reason, emitted, returned>>

ResolveNext ==
    \/ ResolveCall
    \/ Assign

ResolveSpec == ResolveInit /\ [][ResolveNext]_vars

----------------------------------------------------------------------------
(* PartPlacementCalculator and FaceComposer *)

\* the refinement loop is not running
LoopIdle ==
    /\ variant = "none"
    /\ max_iterations = 0
    /\ pc = "idle"
    /\ iteration = 0
    /\ heap = InitialHeap
    /\ current_positions = InitialRef
    /\ result_ref = 0
    /\ last_adjustments = <<>>
    /\ call_input = NoModel
    /\ last_rendered = NoModel
    /\ iteration_images = <<>>
    /\ adjustment_history = <<>>
    /\ calls = 0
    /\ last_response = NoResponse
    /\ best_score = 0
    /\ stop_reason = ""
    /\ emitted = <<>>
    /\ returned = ""

BASE_CENTER == <<200, 200>>

\* base_positions of _get_base_coordinates; a tuple entry is [tuple |-> t]
base_positions ==
    [hair    |-> [tuple |-> <<200, 200, 100>>],
     eye     |-> [left |-> <<225, 215, 20>>, right |-> <<175, 215, 20>>,
                  single |-> <<200, 215, 20>>],
     eyebrow |-> [left |-> <<225, 185, 20>>, right |-> <<175, 185, 20>>,
                  single |-> <<200, 185, 20>>],
     nose    |-> [tuple |-> <<200, 230, 20>>],
     mouth   |-> [tuple |-> <<200, 255, 25>>],
     ear     |-> [left |-> <<250, 220, 28>>, right |-> <<150, 220, 28>>],
     outline |-> [tuple |-> <<200, 200, 100>>],
     acc     |-> [tuple |-> <<200, 180, 30>>],
     beard   |-> [tuple |-> <<200, 300, 40>>],
     glasses |-> [tuple |-> <<200, 215, 50>>]]

\* return (200, 200, 0.3) for a category not in the table
DEFAULT_COORDINATES == <<200, 200, 30>>

_get_base_coordinates(category, is_left_part, is_right_part) ==
    IF category \in DOMAIN base_positions
    THEN LET pos_data == base_positions[category]
         IN  IF "tuple" \notin DOMAIN pos_data
             THEN IF is_left_part /\ "left" \in DOMAIN pos_data THEN pos_data.left
                  ELSE IF is_right_part /\ "right" \in DOMAIN pos_data THEN pos_data.right
                  ELSE IF "single" \in DOMAIN pos_data THEN pos_data.single
                  ELSE pos_data.left
             ELSE pos_data.tuple
    ELSE DEFAULT_COORDINATES

\* the mutated offset: taken from the canvas size, not from its center
center_offset_of_size(center, size) ==
    <<size[1] - BASE_CENTER[1], size[2] - BASE_CENTER[2]>>

\* center_offset_x, center_offset_y
center_offset(center, size) ==
    <<center[1] - BASE_CENTER[1], center[2] - BASE_CENTER[2]>>

calculate_part_position(center, size, category, is_left_part, is_right_part) ==
    LET base == _get_base_coordinates(category, is_left_part, is_right_part)
        off  == center_offset(center, size)
    IN  <<base[1] + off[1], base[2] + off[2], base[3]>>

is_symmetrical_category(category) == category \in {"eye", "eyebrow", "ear"}

LAYER_ORDER ==
    <<"outline", "hair", "face_shape", "eyebrow", "eye", "nose", "mouth", "ear",
      "beard", "glasses", "acc">>

\* the categories c for which the name starts with c + "_"
UnderscorePrefixes(name) == IF name = "face_shape" THEN {"face"} ELSE {}

\* layer.category == category or layer.category.startswith(f"{category}_"),
\* a layer's category being base, or base + "_" + suffix
layer_matches(category, layer) ==
    \/ layer.suffix = "" /\ layer.base = category
    \/ layer.suffix # "" /\ layer.base = category
    \/ category \in UnderscorePrefixes(layer.base)

\* the size in pixels of each category's part image
ImageSize == [eye |-> <<100, 50>>, nose |-> <<50, 50>>, hat |-> <<100, 100>>]

\* int(image.width * scale), int(image.height * scale)
scaled_size(size, scale) == <<(size[1] * scale) \div 100, (size[2] * scale) \div 100>>

CompositionLayer(category, suffix, position, scale, size, mirrored, part) ==
    [base |-> category, suffix |-> suffix, position |-> position, scale |-> scale,
     size |-> size, mirrored |-> mirrored, blendable |-> part.status # "unblendable"]

\* the layers one entry of parts_dict adds in _create_layers_with_custom_positions
custom_layers(part, custom_positions) ==
    IF part.category \notin DOMAIN custom_positions THEN <<>>
    ELSE IF part.status = "missing" THEN <<>>
    ELSE IF part.status = "unreadable" THEN <<>>
    ELSE LET custom_pos == custom_positions[part.category]
             L(sfx, t, mir) ==
                 CompositionLayer(part.category, sfx, <<t[1], t[2]>>, t[3],
                                  scaled_size(ImageSize[part.category], t[3]), mir, part)
         IN  IF IsSymmetric(custom_pos)
             THEN <<L("left", custom_pos.left, FALSE), L("right", custom_pos.right, TRUE)>>
             ELSE <<L("", custom_pos.single, FALSE)>>

\* _create_single_layer_fixed: the position stored is the top-left corner
_create_single_layer_fixed(center, size, part, is_left_part, is_right_part, mir) ==
    LET t  == calculate_part_position(center, size, part.category,
                                      is_left_part, is_right_part)
        sz == scaled_size(ImageSize[part.category], t[3])
        sp == IF sz[1] > 0 /\ sz[2] > 0 THEN sz ELSE ImageSize[part.category]
    IN  CompositionLayer(part.category, "",
                         <<t[1] - sp[1] \div 2, t[2] - sp[2] \div 2>>, t[3], sp, mir, part)

\* the layers one entry of selected_parts adds in _create_composition_layers_fixed
fixed_layers(center, size, part) ==
    IF part.status \in {"missing", "unreadable"} THEN <<>>
    ELSE IF is_symmetrical_category(part.category)
    THEN <<_create_single_layer_fixed(center, size, part, TRUE, FALSE, FALSE),
           _create_single_layer_fixed(center, size, part, FALSE, TRUE, TRUE)>>
    ELSE <<_create_single_layer_fixed(center, size, part, FALSE, FALSE, FALSE)>>

part_fails(part) == part.status \in {"missing", "unreadable"}

\* the layers of one part, on the fixed path of compose_face or with the
\* custom_positions argument
part_layers(ctx, part) ==
    IF ctx.path = "fixed" THEN fixed_layers(ctx.center, ctx.size, part)
    ELSE custom_layers(part, ctx.positions)

\* the mutated loop: the first part that cannot be used ends the loop
RECURSIVE create_layers_abort(_, _, _)
create_layers_abort(ls, parts, ctx) ==
    IF parts = <<>> THEN ls
    ELSE IF part_fails(Head(parts)) THEN ls
    ELSE create_layers_abort(ls \o part_layers(ctx, Head(parts)), Tail(parts), ctx)

\* for category, part_data in parts_dict.items(): ... self.layers.append(layer)
RECURSIVE create_layers(_, _, _)
create_layers(ls, parts, ctx) ==
    IF parts = <<>> THEN ls
    ELSE create_layers(ls \o part_layers(ctx, Head(parts)), Tail(parts), ctx)

\* the mutated start of a call: the layers of the previous call stay
keep_layers(ls) == ls

\* self.layers.clear()
clear_layers(ls) == <<>>

\* _blend_layer: what is pasted on the overlay, and where
paste_of(layer) ==
    [base |-> layer.base, suffix |-> layer.suffix,
     left |-> layer.position[1] - layer.size[1] \div 2,
     top |-> layer.position[2] - layer.size[2] \div 2,
     size |-> layer.size, scale |-> layer.scale, mirrored |-> layer.mirrored]

RECURSIVE blend_all(_)
blend_all(ls) ==
    IF ls = <<>> THEN <<>>
    ELSE (IF Head(ls).blendable THEN <<paste_of(Head(ls))>> ELSE <<>>)
         \o blend_all(Tail(ls))

\* _compose_layers: the pastes made, in the order they are made
RECURSIVE _compose_layers(_, _)
_compose_layers(ls, i) ==
    IF i > Len(LAYER_ORDER) THEN <<>>
    ELSE LET match(layer) == layer_matches(LAYER_ORDER[i], layer)
         IN  blend_all(SelectSeq(ls, match)) \o _compose_layers(ls, i + 1)

Image(pastes) == [kind |-> "image", blended |-> pastes]

\* canvas sizes a composer is constructed with
CanvasSizes == {<<400, 400>>, <<800, 800>>, <<401, 301>>}

PartCategories == {"eye", "nose", "hat"}

\* what can be the matter with a part's image: the file is missing, it
\* cannot be opened, or its layer cannot be blended
PartStatuses(c) ==
    IF c = "eye" THEN {"ok", "missing", "unreadable", "unblendable"}
    ELSE IF c = "nose" THEN {"ok", "missing", "unblendable"}
    ELSE {"ok"}

PartChoices ==
    UNION {{[category |-> c, status |-> st] : st \in PartStatuses(c)} :
              c \in PartCategories}

\* parts_dict / selected_parts, in the order of its items()
PartsDicts ==
    {ps \in UNION {[1..n -> PartChoices] : n \in 0..Cardinality(PartCategories)} :
        \A i, j \in 1..Len(ps) : i # j => ps[i].category # ps[j].category}

\* the coordinate model that equals the placement table on this canvas
TableModel(center, size) ==
    [eye  |-> [left  |-> calculate_part_position(center, size, "eye", TRUE, FALSE),
               right |-> calculate_part_position(center, size, "eye", FALSE, TRUE)],
     nose |-> [single |-> calculate_part_position(center, size, "nose", FALSE, FALSE)],
     hat  |-> [single |-> calculate_part_position(center, size, "hat", FALSE, FALSE)]]

\* a refined model: the eyes closer and smaller, no nose
MovedModel(center, size) ==
    LET t == TableModel(center, size)
    IN  [eye |-> [left  |-> <<t.eye.left[1] - 3, t.eye.left[2], 15>>,
                  right |-> <<t.eye.right[1] + 3, t.eye.right[2], 15>>],
         hat |-> t.hat]

CustomModels(center, size) == {TableModel(center, size), MovedModel(center, size)}

ComposerInit ==
    /\ LoopIdle
    /\ StreamIdle
    /\ UtilIdle
    /\ ServerIdle
    /\ canvas_size \in CanvasSizes
    /\ canvas_center = <<canvas_size[1] \div 2, canvas_size[2] \div 2>>
    /\ layers = <<>>
    /\ composer_call = NoCall
    /\ composer_result = NoResult
    /\ compose_calls = 0

CalculatePartPosition ==
    /\ compose_calls < MaxComposeCalls
    /\ \E category \in DOMAIN base_positions \cup {"hat"},
          is_left_part \in BOOLEAN, is_right_part \in BOOLEAN :
         /\ composer_call' = [op |-> "calculate_part_position", category |-> category,
                              is_left_part |-> is_left_part,
                              is_right_part |-> is_right_part]
         /\ composer_result' =
               [kind |-> "position",
                v |-> calculate_part_position(canvas_center, canvas_size, category,
                                              is_left_part, is_right_part)]
    /\ compose_calls' = compose_calls + 1
    /\ UNCHANGED <<loop_vars, stream_vars, util_vars, server_vars, canvas_size, canvas_center, layers>>

\* compose_face(base_image_path, selected_parts)
ComposeFace ==
    /\ compose_calls < MaxComposeCalls
    /\ \E selected_parts \in PartsDicts :
         LET ctx == [path |-> "fixed", center |-> canvas_center, size |-> canvas_size]
             ls  == create_layers(clear_layers(layers), selected_parts, ctx)
         IN  /\ layers' = ls
             /\ composer_call' = [op |-> "compose_face", parts |-> selected_parts]
             /\ composer_result' = Image(_compose_layers(ls, 1))
    /\ compose_calls' = compose_calls + 1
    /\ UNCHANGED <<loop_vars, stream_vars, util_vars, server_vars, canvas_size, canvas_center>>

\* compose_face_with_custom_positions(None, parts_dict, custom_positions)
ComposeCustom ==
    /\ compose_calls < MaxComposeCalls
    /\ \E parts_dict \in PartsDicts,
          custom_positions \in CustomModels(canvas_center, canvas_size) :
         LET ctx == [path |-> "custom", positions |-> custom_positions]
             ls  == create_layers(clear_layers(layers), parts_dict, ctx)
         IN  /\ layers' = ls
             /\ composer_call' = [op |-> "compose_face_with_custom_positions",
                                  parts |-> parts_dict, positions |-> custom_positions]
             /\ composer_result' = Image(_compose_layers(ls, 1))
    /\ compose_calls' = compose_calls + 1
    /\ UNCHANGED <<loop_vars, stream_vars, util_vars, server_vars, canvas_size, canvas_center>>

ComposerNext ==
    \/ ComposeFace
    \/ ComposeCustom

ComposerSpec == ComposerInit /\ [][ComposerNext]_vars

\* calls on the composer's PartPlacementCalculator alone
PlacementNext == CalculatePartPosition

PlacementSpec == ComposerInit /\ [][PlacementNext]_vars

-----------------------------------------------------------------------------
(* The SSE stream of one session: stream_progress and the worker thread *)

\* the statuses the worker reports while it runs
ProgressStatuses == {"started", "composing", "analyzing"}

\* progress_callback: the notification is queued only while the session's
\* queue is registered in active_streams
progress_callback(q, status) ==
    IF active_streams THEN Append(q, status) ELSE q

\* the test after the yield: the generator leaves its loop
is_last_event(data) == data = "finished"

StreamInit ==
    /\ LoopIdle
    /\ ComposerIdle
    /\ StreamIdle
    /\ UtilIdle
    /\ ServerIdle

\* the POST handler starts the background thread
StartWorker ==
    /\ worker_pc = "idle"
    /\ worker_pc' = "running"
    /\ UNCHANGED <<active_streams, stream_queue, stream_pc, yielded, heartbeats>>
    /\ UNCHANGED <<loop_vars, composer_vars, util_vars, server_vars>>

\* the client opens /stream/<stream_id>: the generator creates the queue
\* and registers it
Connect ==
    /\ stream_pc = "idle"
    /\ stream_pc' = "listening"
    /\ stream_queue' = <<>>
    /\ active_streams' = TRUE
    /\ UNCHANGED <<worker_pc, yielded, heartbeats>>
    /\ UNCHANGED <<loop_vars, composer_vars, util_vars, server_vars>>

WorkerNotify ==
    /\ worker_pc = "running"
    /\ Len(stream_queue) + Len(yielded) < MaxNotifications
    /\ \E status \in ProgressStatuses :
          stream_queue' = progress_callback(stream_queue, status)
    /\ UNCHANGED <<active_streams, worker_pc, stream_pc, yielded, heartbeats>>
    /\ UNCHANGED <<loop_vars, composer_vars, util_vars, server_vars>>

\* the worker returns after its "finished" notification
WorkerFinishes ==
    /\ worker_pc = "running"
    /\ worker_pc' = "done"
    /\ stream_queue' = progress_callback(stream_queue, "finished")
    /\ UNCHANGED <<active_streams, stream_pc, yielded, heartbeats>>
    /\ UNCHANGED <<loop_vars, composer_vars, util_vars, server_vars>>

\* an exception in the worker: the except clause sends "error"
WorkerFails ==
    /\ worker_pc = "running"
    /\ worker_pc' = "done"
    /\ stream_queue' = progress_callback(stream_queue, "error")
    /\ UNCHANGED <<active_streams, stream_pc, yielded, heartbeats>>
    /\ UNCHANGED <<loop_vars, composer_vars, util_vars, server_vars>>

\* q.get returns an event: it is yielded, and on the last event the
\* generator breaks and its finally clause removes the queue
StreamGet ==
    /\ stream_pc = "listening"
    /\ stream_queue # <<>>
    /\ LET data == Head(stream_queue)
       IN  /\ yielded' = Append(yielded, data)
           /\ IF is_last_event(data)
              THEN /\ stream_pc' = "closed"
                   /\ active_streams' = FALSE
                   /\ stream_queue' = <<>>
              ELSE /\ stream_queue' = Tail(stream_queue)
                   /\ UNCHANGED <<stream_pc, active_streams>>
    /\ UNCHANGED <<worker_pc, heartbeats>>
    /\ UNCHANGED <<loop_vars, composer_vars, util_vars, server_vars>>

\* q.get times out on the empty queue: a heartbeat is yielded
Heartbeat ==
    /\ stream_pc = "listening"
    /\ stream_queue = <<>>
    /\ heartbeats < MaxHeartbeats
    /\ heartbeats' = heartbeats + 1
    /\ UNCHANGED <<active_streams, stream_queue, worker_pc, stream_pc, yielded>>
    /\ UNCHANGED <<loop_vars, composer_vars, util_vars, server_vars>>

\* the HTTP client goes away: GeneratorExit, and the finally clause
\* removes the queue
ClientDisconnect ==
    /\ stream_pc = "listening"
    /\ stream_pc' = "closed"
    /\ active_streams' = FALSE
    /\ stream_queue' = <<>>
    /\ UNCHANGED <<worker_pc, yielded, heartbeats>>
    /\ UNCHANGED <<loop_vars, composer_vars, util_vars, server_vars>>

StreamNext ==
    \/ StartWorker
    \/ Connect
    \/ WorkerNotify
    \/ WorkerFinishes
    \/ WorkerFails
    \/ StreamGet
    \/ Heartbeat
    \/ ClientDisconnect

StreamSpec == StreamInit /\ [][StreamNext]_vars

\* the server keeps iterating the generator: q.get returns an event that
\* is queued, and times out after 30 seconds when none is
StreamFairSpec ==
    /\ StreamSpec
    /\ WF_vars(StreamGet)
    /\ WF_vars(Heartbeat)

-----------------------------------------------------------------------------
(* Utility functions: CoordinateConverter and generate_initial_positions *)

\* the mutated conversion: the y axis is not flipped
image_to_math_y_down(center, x, y) == <<x - center[1], y - center[2]>>

image_to_math(center, x, y) == <<x - center[1], center[2] - y>>

math_to_image(center, math_x, math_y) == <<math_x + center[1], center[2] - math_y>>

\* the categories and sides a conversion keeps: those whose coordinates
\* have at least three elements
kept_sides(pos_data) == {side \in DOMAIN pos_data : Len(pos_data[side]) >= 3}
kept_categories(positions) ==
    {c \in DOMAIN positions :
        "single" \notin DOMAIN positions[c] \/ kept_sides(positions[c]) = {"single"}}

convert_positions_to_math(center, image_positions) ==
    [c \in kept_categories(image_positions) |->
        [side \in kept_sides(image_positions[c]) |->
            LET coords == image_positions[c][side]
                m      == image_to_math(center, coords[1], coords[2])
            IN  <<m[1], m[2], coords[3]>>]]

convert_positions_to_image(center, math_positions) ==
    [c \in kept_categories(math_positions) |->
        [side \in kept_sides(math_positions[c]) |->
            LET coords == math_positions[c][side]
                xy     == math_to_image(center, coords[1], coords[2])
            IN  <<xy[1], xy[2], coords[3]>>]]

\* generate_initial_positions: an unreadable image returns the default
\* model and a blank image; on a readable one `if not landmarks` reads a
\* name that is neither a local nor a global of the module
generate_initial_positions(readable, parts) ==
    IF ~readable
    THEN [kind |-> "return", positions |-> InitialPositions, image |-> "blank"]
    ELSE [kind |-> "raise", error |-> "NameError"]

\* the coordinates of the points converted
PointCoordinates == {-1, 0, 100, 175, 200, 225, 399, 400}

\* a model with a two-element entry, which the conversions drop
ShortModel == [nose |-> [single |-> <<200, 230>>],
               eye  |-> [left |-> <<225, 215, 20>>, right |-> <<175, 215>>]]

ConverterModels ==
    {InitialPositions, ShortModel}
    \cup UNION {CustomModels(<<sz[1] \div 2, sz[2] \div 2>>, sz) : sz \in CanvasSizes}

GeneratorParts == SUBSET {"hair", "eye", "ear", "nose"}

UtilInit ==
    /\ LoopIdle
    /\ ComposerIdle
    /\ StreamIdle
    /\ UtilIdle
    /\ ServerIdle

Returned(value, back) == [kind |-> "return", value |-> value, back |-> back]

\* converter.math_to_image(*converter.image_to_math(x, y))
ImageToMathAndBack ==
    \E sz \in CanvasSizes, x \in PointCoordinates, y \in PointCoordinates :
        LET center == <<sz[1] \div 2, sz[2] \div 2>>
            m      == image_to_math(center, x, y)
        IN  /\ fn_call' = [op |-> "image_to_math", canvas_size |-> sz, args |-> <<x, y>>]
            /\ fn_result' = Returned(m, math_to_image(center, m[1], m[2]))
            /\ UNCHANGED <<loop_vars, composer_vars, stream_vars, server_vars>>

\* converter.image_to_math(*converter.math_to_image(math_x, math_y))
MathToImageAndBack ==
    \E sz \in CanvasSizes, mx \in PointCoordinates, my \in PointCoordinates :
        LET center == <<sz[1] \div 2, sz[2] \div 2>>
            xy     == math_to_image(center, mx, my)
        IN  /\ fn_call' = [op |-> "math_to_image", canvas_size |-> sz, args |-> <<mx, my>>]
            /\ fn_result' = Returned(xy, image_to_math(center, xy[1], xy[2]))
            /\ UNCHANGED <<loop_vars, composer_vars, stream_vars, server_vars>>

\* converter.convert_positions_to_image(converter.convert_positions_to_math(M))
ConvertPositions ==
    \E sz \in CanvasSizes, positions \in ConverterModels :
        LET center == <<sz[1] \div 2, sz[2] \div 2>>
            math   == convert_positions_to_math(center, positions)
        IN  /\ fn_call' = [op |-> "convert_positions_to_math", canvas_size |-> sz,
                           args |-> positions]
            /\ fn_result' = Returned(math, convert_positions_to_image(center, math))
            /\ UNCHANGED <<loop_vars, composer_vars, stream_vars, server_vars>>

GenerateInitialPositions ==
    \E readable \in BOOLEAN, has_face \in BOOLEAN, parts \in GeneratorParts :
        /\ fn_call' = [op |-> "generate_initial_positions", readable |-> readable,
                       has_face |-> readable /\ has_face, parts |-> parts]
        /\ fn_result' = generate_initial_positions(readable, parts)
        /\ UNCHANGED <<loop_vars, composer_vars, stream_vars, server_vars>>

UtilNext ==
    \/ ImageToMathAndBack
    \/ MathToImageAndBack
    \/ ConvertPositions
    \/ GenerateInitialPositions

UtilSpec == UtilInit /\ [][UtilNext]_vars

-----------------------------------------------------------------------------
(* The web server with concurrent sessions: POST /analyze, POST            *)
(* /iterative_refine, their worker threads and GET /stream/<stream_id>     *)

\* the mutated generator: every request gets the same stream id
shared_stream_id(used) == 1

\* str(uuid.uuid4()): an id no earlier request has
new_stream_id(used) == CHOOSE i \in 1..(Cardinality(used) + 1) : i \notin used

UsedStreamIds == {sessions[s].stream_id : s \in SessionNames} \ {0}

\* time.strftime("%Y%m%d_%H%M%S"): the clock, to the second
strftime == clock

\* UPLOADS_DIR / f"upload_{ts}{ext}", OUTPUTS_DIR / f"run_{ts}.json",
\* f"composed_{ts}.png", f"iteration_{iteration + 1}_{ts}.png"
FilePath(name, n, ts, ext) == [name |-> name, n |-> n, ts |-> ts, ext |-> ext]

UploadExtensions == {".png", ".jpg"}

Written(s, paths) == files \cup {[path |-> p, writer |-> s] : p \in paths}

\* progress_callback of session s: the notification goes to the queue
\* registered under the session's stream_id, if there is one
notify(s, status, n) ==
    LET id == sessions[s].stream_id
    IN  IF id \in DOMAIN all_streams
        THEN [all_streams EXCEPT
                 ![id] = Append(@, [from |-> s, status |-> status, iteration |-> n])]
        ELSE all_streams

ServerInit ==
    /\ LoopIdle
    /\ ComposerIdle
    /\ StreamIdle
    /\ UtilIdle
    /\ ServerIdle

Tick ==
    /\ clock < MaxClock
    /\ clock' = clock + 1
    /\ UNCHANGED <<sessions, all_streams, files>>
    /\ UNCHANGED <<loop_vars, composer_vars, stream_vars, util_vars>>

\* POST /analyze: the upload is saved, the worker thread is started
PostAnalyze(s) ==
    /\ sessions[s].pc = "idle"
    /\ \E ext \in UploadExtensions :
          files' = Written(s, {FilePath("upload", 0, strftime, ext)})
    /\ sessions' = [sessions EXCEPT ![s] =
          [NoSession EXCEPT !.kind = "analyze", !.pc = "running", !.ts = strftime,
                            !.stream_id = new_stream_id(UsedStreamIds)]]
    /\ UNCHANGED <<clock, all_streams>>
    /\ UNCHANGED <<loop_vars, composer_vars, stream_vars, util_vars>>

\* POST /iterative_refine: the worker thread is started
PostIterativeRefine(s) ==
    /\ sessions[s].pc = "idle"
    /\ sessions' = [sessions EXCEPT ![s] =
          [NoSession EXCEPT !.kind = "refine", !.pc = "running", !.ts = strftime,
                            !.stream_id = new_stream_id(UsedStreamIds)]]
    /\ UNCHANGED <<clock, all_streams, files>>
    /\ UNCHANGED <<loop_vars, composer_vars, stream_vars, util_vars>>

\* GET /stream/<stream_id>: the generator registers a new queue
StreamConnect(s) ==
    /\ sessions[s].pc # "idle"
    /\ sessions[s].stream_id \notin DOMAIN all_streams
    /\ all_streams' = (sessions[s].stream_id :> <<>>) @@ all_streams
    /\ UNCHANGED <<clock, sessions, files>>
    /\ UNCHANGED <<loop_vars, composer_vars, stream_vars, util_vars>>

\* the generator exits: its finally clause removes the queue
StreamExit(s) ==
    /\ sessions[s].stream_id \in DOMAIN all_streams
    /\ all_streams' = [id \in DOMAIN all_streams \ {sessions[s].stream_id} |->
                          all_streams[id]]
    /\ UNCHANGED <<clock, sessions, files>>
    /\ UNCHANGED <<loop_vars, composer_vars, stream_vars, util_vars>>

\* run_analysis: run_{ts}.json and composed_{ts}.png are written, then finished
RunAnalysis(s) ==
    /\ sessions[s].kind = "analyze"
    /\ sessions[s].pc = "running"
    /\ files' = Written(s, {FilePath("run", 0, sessions[s].ts, ".json"),
                            FilePath("composed", 0, sessions[s].ts, ".png")})
    /\ all_streams' = notify(s, "finished", 0)
    /\ sessions' = [sessions EXCEPT ![s].pc = "done"]
    /\ UNCHANGED clock
    /\ UNCHANGED <<loop_vars, composer_vars, stream_vars, util_vars>>

\* run_iterative_refinement, one round: the image of the round is written
\* and announced, the adjustments are applied to the worker's model
RefineRound(s) ==
    /\ sessions[s].kind = "refine"
    /\ sessions[s].pc = "running"
    /\ sessions[s].round < MaxRounds
    /\ LET n    == sessions[s].round + 1
           path == FilePath("iteration", n, strftime, ".png")
       IN  /\ files' = Written(s, {path})
           /\ all_streams' = notify(s, "iteration_image", n)
           /\ sessions' = [sessions EXCEPT
                 ![s].round = n,
                 ![s].iteration_images = Append(@, path),
                 ![s].positions = Append(@, n)]
    /\ UNCHANGED clock
    /\ UNCHANGED <<loop_vars, composer_vars, stream_vars, util_vars>>

\* the worker ends: finished after a round, or error from the except clause
WorkerEnds(s) ==
    /\ sessions[s].pc = "running"
    /\ \E status \in {"finished", "error"} :
          /\ status = "finished" => sessions[s].kind = "refine" /\ sessions[s].round > 0
          /\ all_streams' = notify(s, status, sessions[s].round)
    /\ sessions' = [sessions EXCEPT ![s].pc = "done"]
    /\ UNCHANGED <<clock, files>>
    /\ UNCHANGED <<loop_vars, composer_vars, stream_vars, util_vars>>

ServerNext ==
    \/ Tick
    \/ \E s \in SessionNames : PostAnalyze(s)
    \/ \E s \in SessionNames : PostIterativeRefine(s)
    \/ \E s \in SessionNames : StreamConnect(s)
    \/ \E s \in SessionNames : StreamExit(s)
    \/ \E s \in SessionNames : RunAnalysis(s)
    \/ \E s \in SessionNames : RefineRound(s)
    \/ \E s \in SessionNames : WorkerEnds(s)

ServerSpec == ServerInit /\ [][ServerNext]_vars

----------------------------------------------------------------------------
(* Properties *)

ResultPositions == Value(heap, result_ref)
CurrentPositions == Value(heap, current_positions)
ResolverReturned == pc = "assign"
LiveModels ==
    {CurrentPositions} \cup (IF result_ref # 0 THEN {ResultPositions} ELSE {})

ScalesOf(p) ==
    IF IsSymmetric(p) THEN {p.left[3], p.right[3]} ELSE {p.single[3]}

RemoveAt(b, i) == SubSeq(b, 1, i - 1) \o SubSeq(b, i + 1, Len(b))

Sign(n) == IF n < 0 THEN -1 ELSE IF n > 0 THEN 1 ELSE 0

\* C1: when a resolver returns, its result is a new model that shares no dict
\* with the argument, the argument (nested left/right included) equals what
\* it was at the call, and the snapshot of the initial model taken before the
\* first round is still intact after every later round.
C1_ResolverLeavesInputIntact ==
    /\ Value(heap, InitialRef) = InitialPositions
    /\ ResolverReturned =>
          /\ Reach(heap, result_ref) \cap Reach(heap, current_positions) = {}
          /\ CurrentPositions = call_input

\* a later round's resolver call has moved a symmetric pair
C1_Witness ==
    /\ ResolverReturned
    /\ variant \in {"improved", "dynamic"}
    /\ iteration >= 2
    /\ CurrentPositions # InitialPositions
    /\ ResultPositions.eye # call_input.eye

\* C2: in apply_dynamic_adjustments, `closer` on a symmetric placement of
\* spacing d yields spacing d - 6 when d - 6 >= 25 and otherwise is rejected,
\* the spacing staying d.
C2_CloserKeepsMinimum ==
    (ResolverReturned /\ variant = "dynamic") =>
        \A i \in 1..Len(last_adjustments) :
            LET e == last_adjustments[i]
            IN  (/\ e.category \in DOMAIN call_input
                 /\ IsSymmetric(call_input[e.category])
                 /\ e.adj.symmetrical = "closer") =>
                    LET d == Spacing(call_input[e.category])
                    IN  Spacing(ResultPositions[e.category]) =
                            IF d - 6 >= MIN_EYE_DISTANCE THEN d - 6 ELSE d

\* C3: in the spacing resolvers no symmetric placement ever has its members
\* cross over: left.x - right.x keeps the sign it has in the initial model.
C3_NoCrossover ==
    variant \in SpacingVariants =>
        \A m \in LiveModels : \A c \in DOMAIN m :
            IsSymmetric(m[c]) =>
                Sign(m[c].left[1] - m[c].right[1]) =
                    Sign(InitialPositions[c].left[1] - InitialPositions[c].right[1])

\* C4: no scale of any coordinate model, single or symmetric, is ever below
\* the floor 0.1, however often `smaller` is applied.
C4_ScaleFloor ==
    \A m \in LiveModels : \A c \in DOMAIN m : \A s \in ScalesOf(m[c]) :
        s >= SCALE_FLOOR /\ s > 0

\* `smaller` has just been applied to a single and to a symmetric placement
\* that were already at the floor
C4_Witness ==
    /\ ResolverReturned
    /\ \E i, j \in 1..Len(last_adjustments) :
          LET e == last_adjustments[i]
              f == last_adjustments[j]
          IN  /\ e.adj.scale = "smaller" /\ e.category = "nose"
              /\ call_input.nose.single[3] = SCALE_FLOOR
              /\ ResultPositions.nose.single[3] = SCALE_FLOOR
              /\ f.adj.scale = "smaller" /\ f.category = "eye"
              /\ ~Skipped(variant, call_input, f)
              /\ call_input.eye.left[3] = SCALE_FLOOR
              /\ ResultPositions.eye.left[3] = SCALE_FLOOR

\* C5: every scale of every coordinate model lies within the bounds of its
\* variant: [0.1, 1.0] in the Gemini loops, [0.1, 2.0] in the hill climb.
C5_ScaleWithinBounds ==
    \A m \in LiveModels : \A c \in DOMAIN m : \A s \in ScalesOf(m[c]) :
        /\ s >= SCALE_FLOOR
        /\ s <= (IF variant = "hill" THEN SCALE_MAX ELSE SCALE_CEIL)

\* C6: a round whose parsed response is satisfied or has no adjustments ends
\* the loop: no resolver call, the model is the one just rendered, and round
\* k has made exactly k renders and k external calls (one and one when the
\* first answer is {adjustments: {}, satisfied: false}).
C6_StopRoundEndsLoop ==
    (last_response.parsed /\ (last_response.satisfied \/ last_response.empty)) =>
        /\ pc \in {"report", "done"}
        /\ result_ref = 0
        /\ CurrentPositions = last_rendered
        /\ Len(iteration_images) = iteration
        /\ calls = iteration

\* the first answer was {adjustments: {}, satisfied: false} and the loop is over
C6_Witness ==
    /\ pc = "done"
    /\ last_response = Response(TRUE, FALSE, TRUE)
    /\ max_iterations > 1
    /\ Len(iteration_images) = 1
    /\ calls = 1

RoundsLeft == max_iterations - iteration

\* position inside one round, counted down towards the loop exit
StepsLeft ==
    CASE pc = "start" -> 9
      [] pc = "hill_init" -> 8
      [] pc = "render" -> 6
      [] pc \in {"request", "trial"} -> 5
      [] pc = "assign" -> 4
      [] pc = "loop" -> 3
      [] pc = "report" -> 1
      [] pc = "done" -> 0

Measure == RoundsLeft * 10 + StepsLeft

C7_Budget ==
    /\ iteration <= max_iterations
    /\ Len(iteration_images) <= max_iterations
    /\ calls <= max_iterations

\* C7: whatever the external model answers, the loop terminates within
\* max_iterations renders and max_iterations external calls: every step
\* keeps the three counters within the budget and strictly decreases a
\* measure that is never negative, so no run goes on for ever.
C7_TerminatesWithinBudget ==
    [][C7_Budget' /\ Measure' < Measure /\ Measure' >= 0]_vars

\* the model never was satisfied and the whole budget was used
C7_Witness ==
    /\ pc = "done"
    /\ stop_reason = "budget"
    /\ max_iterations > 1
    /\ calls = max_iterations
    /\ Len(iteration_images) = max_iterations

\* C8: when round k fails on the external call (it raises, answers nothing,
\* or answers text that is not JSON) the loop is over, round k being the last
\* render and the last call, and the model is the one rendered in round k.
C8_ErrorKeepsLastGoodModel ==
    stop_reason \in {"call_exception", "empty_response", "parse_failure"} =>
        /\ pc \in {"report", "done"}
        /\ result_ref = 0
        /\ CurrentPositions = last_rendered
        /\ Len(iteration_images) = iteration
        /\ calls = iteration

\* a parse failure in a later round, after adjustments had been applied
C8_Witness ==
    /\ pc = "done"
    /\ stop_reason = "parse_failure"
    /\ iteration >= 2
    /\ CurrentPositions # InitialPositions
    /\ CurrentPositions = last_rendered

\* C9: on every termination path the caller has a rendered image and the
\* final positions: the web worker's terminal notification carries the final
\* positions and some notification carried an image URL; a CLI function
\* returns the coordinate model with a non-empty image list.
C9_CallerAlwaysGetsImage ==
    (/\ pc = "done"
     /\ variant \in GeminiVariants
     /\ stop_reason \in {"satisfied", "empty_adjustments", "budget", "parse_failure",
                         "render_failure", "call_exception"}) =>
        IF variant = "web"
        THEN /\ emitted # <<>>
             /\ emitted[Len(emitted)].has_positions
             /\ \E i \in 1..Len(emitted) : emitted[i].image_url # 0
        ELSE /\ returned = "positions_and_images"
             /\ iteration_images # <<>>

\* C10: an entry the resolver skips (category not in the model, or spacing
\* op rejected by the safety check) adds no key and leaves its category as
\* it was, and the result is the one the batch without that entry gives.
C10_SkippedEntryIsInert ==
    (ResolverReturned /\ variant \in GeminiVariants) =>
        \A i \in 1..Len(last_adjustments) :
            LET e == last_adjustments[i]
                without == apply_adjustments(variant, heap, current_positions,
                                             RemoveAt(last_adjustments, i))
            IN  Skipped(variant, call_input, e) =>
                    /\ DOMAIN ResultPositions = DOMAIN call_input
                    /\ e.category \in DOMAIN call_input =>
                          ResultPositions[e.category] = call_input[e.category]
                    /\ ResultPositions = Value(without.heap, without.ref)

\* the safety check rejected the eye entry and the nose entry was applied
C10_Witness ==
    /\ ResolverReturned
    /\ variant = "dynamic"
    /\ Len(last_adjustments) = 2
    /\ last_adjustments[1].category = "eye"
    /\ Skipped(variant, call_input, last_adjustments[1])
    /\ ResultPositions.eye = call_input.eye
    /\ ResultPositions.nose # call_input.nose

----------------------------------------------------------------------------
(* Properties of a single resolver call *)

TheEntry == last_adjustments[1]

OnlySets(a, k) ==
    \A f \in {"position", "scale", "symmetrical"} : (a[f] # None) <=> (f = k)

MembersOf(p) ==
    IF IsSymmetric(p) THEN {"left", "right"} ELSE {"single"}

\* the pixel delta the documentation gives for each move
MoveDelta(mv) ==
    CASE mv = "up"           -> <<0, -5>>
      [] mv = "down"         -> <<0, 5>>
      [] mv = "left"         -> <<-5, 0>>
      [] mv = "right"        -> <<5, 0>>
      [] mv = "up_slight"    -> <<0, -3>>
      [] mv = "down_slight"  -> <<0, 3>>
      [] mv = "left_slight"  -> <<-3, 0>>
      [] mv = "right_slight" -> <<3, 0>>

\* the x delta of the left member for each spacing op; the right member's
\* is the opposite
SpacingDelta(m) ==
    CASE m = "closer"     -> -3
      [] m = "wider"      -> 3
      [] m = "closer_big" -> -5
      [] m = "wider_big"  -> 5

ScaleDelta(sc) ==
    CASE sc = "bigger"         -> 5
      [] sc = "smaller"        -> -5
      [] sc = "bigger_slight"  -> 3
      [] sc = "smaller_slight" -> -3

\* C11: for a symmetric placement and an adjustment that sets only the
\* spacing op, an accepted op moves the two members' x by opposite deltas
\* (3 for closer/wider, 5 for closer_big/wider_big) and leaves their y and
\* scale as they were.
C11_SpacingMovesOnlyX ==
    (ResolverReturned /\ variant \in SpacingVariants /\ Len(last_adjustments) = 1) =>
        LET e == TheEntry
        IN  (/\ e.category \in DOMAIN call_input
             /\ IsSymmetric(call_input[e.category])
             /\ OnlySets(e.adj, "symmetrical")
             /\ ~Skipped(variant, call_input, e)) =>
                LET old == call_input[e.category]
                    new == ResultPositions[e.category]
                    d   == SpacingDelta(e.adj.symmetrical)
                IN  /\ new.left  = <<old.left[1] + d, old.left[2], old.left[3]>>
                    /\ new.right = <<old.right[1] - d, old.right[2], old.right[3]>>

\* the documented example: eyes at 225 and 175, `closer`, give 222 and 178
C11_Witness ==
    /\ ResolverReturned
    /\ variant \in SpacingVariants
    /\ Len(last_adjustments) = 1
    /\ TheEntry = Entry("eye", Adj(None, None, "closer"))
    /\ call_input.eye = [left |-> <<225, 215, 20>>, right |-> <<175, 215, 20>>]
    /\ ResultPositions.eye = [left |-> <<222, 215, 20>>, right |-> <<178, 215, 20>>]

\* C12: in every resolver each of the eight moves changes (x, y) of a single
\* placement by its fixed delta (5px, 3px for the slight moves) and leaves
\* the scale, and translates both members of a symmetric placement by that
\* delta when no spacing op is set.
C12_EveryMoveTranslates ==
    (ResolverReturned /\ Len(last_adjustments) = 1) =>
        LET e == TheEntry
        IN  (/\ e.category \in DOMAIN call_input
             /\ OnlySets(e.adj, "position")
             /\ variant = "hill" => e.side = None) =>
                LET old == call_input[e.category]
                    new == ResultPositions[e.category]
                    d   == MoveDelta(e.adj.position)
                IN  \A k \in MembersOf(old) :
                        new[k] = <<old[k][1] + d[1], old[k][2] + d[2], old[k][3]>>

\* C13: in apply_dynamic_adjustments a symmetric placement that starts with
\* a spacing within [25, 70] keeps a spacing within [25, 70] after any
\* sequence of spacing ops.
C13_SpacingStaysInRange ==
    variant = "dynamic" =>
        \A m \in LiveModels : \A c \in DOMAIN m :
            (/\ IsSymmetric(m[c])
             /\ Spacing(InitialPositions[c]) >= MIN_EYE_DISTANCE
             /\ Spacing(InitialPositions[c]) <= MAX_EYE_DISTANCE) =>
                /\ Spacing(m[c]) >= MIN_EYE_DISTANCE
                /\ Spacing(m[c]) <= MAX_EYE_DISTANCE

\* the largest scale the resolver of variant v lets category c take
UpperBound(v, c, mouth_cap) ==
    IF v = "hill" THEN SCALE_MAX
    ELSE IF v = "dynamic" /\ c = "mouth" THEN mouth_cap
    ELSE SCALE_CEIL

ScaleOnlyAdds(mouth_cap) ==
    (ResolverReturned /\ Len(last_adjustments) = 1) =>
        LET e == TheEntry
        IN  (/\ e.category \in DOMAIN call_input
             /\ ~IsSymmetric(call_input[e.category])
             /\ OnlySets(e.adj, "scale")) =>
                LET old == call_input[e.category].single
                    sum == old[3] + ScaleDelta(e.adj.scale)
                IN  (sum >= SCALE_FLOOR /\ sum <= UpperBound(variant, e.category, mouth_cap)) =>
                        ResultPositions[e.category].single = <<old[1], old[2], sum>>

\* C15, as amended: for a single placement and an adjustment that sets only
\* the scale, the op adds exactly its delta (+-0.05, +-0.03 slight) and
\* leaves x and y, whenever the sum lies within the bounds of the variant
\* and category - of which the dynamic resolver's cap of 0.4 for mouth is one.
C15_ScaleOpAddsDelta == ScaleOnlyAdds(MOUTH_SCALE_CAP)

\* C15, as stated: the same with [0.1, 1.0] as the bounds of every Gemini
\* resolver and every category.
C15_AsStated == ScaleOnlyAdds(SCALE_CEIL)

\* the documented example: mouth (200, 255, 0.25) with bigger_slight
C15_Witness ==
    /\ ResolverReturned
    /\ Len(last_adjustments) = 1
    /\ variant \in GeminiVariants
    /\ TheEntry = Entry("mouth", Adj(None, "bigger_slight", None))
    /\ call_input.mouth.single = <<200, 255, 25>>
    /\ ResultPositions.mouth.single = <<200, 255, 28>>

----------------------------------------------------------------------------
(* Properties of the placement calculator and the composer *)

PositionReturned == composer_call.op = "calculate_part_position"

\* the entry of the placement table a call asks for, "" when the claim names none
TableKey(category, is_left_part, is_right_part) ==
    IF category \notin DOMAIN base_positions THEN ""
    ELSE IF "tuple" \in DOMAIN base_positions[category] THEN "tuple"
    ELSE IF is_left_part /\ ~is_right_part THEN "left"
    ELSE IF is_right_part /\ ~is_left_part THEN "right"
    ELSE IF ~is_left_part /\ ~is_right_part /\ "single" \in DOMAIN base_positions[category]
    THEN "single"
    ELSE ""

ProjectsTable ==
    PositionReturned =>
        LET c == composer_call.category
            k == TableKey(c, composer_call.is_left_part, composer_call.is_right_part)
            r == composer_result.v
        IN  k # "" =>
                LET b == base_positions[c][k]
                IN  r = <<b[1] + canvas_size[1] \div 2 - 200,
                          b[2] + canvas_size[2] \div 2 - 200, b[3]>>

DefaultIsFlooredCenter ==
    (PositionReturned /\ composer_call.category \notin DOMAIN base_positions) =>
        composer_result.v = <<canvas_size[1] \div 2, canvas_size[2] \div 2, 30>>

DefaultIsExactCenter ==
    (PositionReturned /\ composer_call.category \notin DOMAIN base_positions) =>
        /\ 2 * composer_result.v[1] = canvas_size[1]
        /\ 2 * composer_result.v[2] = canvas_size[2]
        /\ composer_result.v[3] = 30

CalculatorUnchanged ==
    /\ canvas_size' = canvas_size
    /\ canvas_center' = canvas_center
    /\ layers' = layers

\* C14, as amended: calculate_part_position returns the base-table triple
\* of (category, side) with x and y translated by (w//2 - 200, h//2 - 200)
\* and the scale as it is; for a category not in the table it returns
\* (w//2, h//2, 0.3); and the call leaves the calculator's state unchanged.
C14_ProjectsBaseTable ==
    /\ [](ProjectsTable /\ DefaultIsFlooredCenter)
    /\ [][CalculatorUnchanged]_vars

\* C14, as stated: the default for an unknown category is (w/2, h/2, 0.3),
\* half the canvas size exactly.
C14_AsStated == ProjectsTable /\ DefaultIsExactCenter

\* the documented example: nose on an 800x800 canvas is base + (200, 200)
C14_Witness ==
    /\ PositionReturned
    /\ canvas_size = <<800, 800>>
    /\ composer_call.category = "nose"
    /\ composer_result.v = <<400, 430, 20>>

CustomReturned == composer_call.op = "compose_face_with_custom_positions"
FixedReturned == composer_call.op = "compose_face"
ComposeReturned == CustomReturned \/ FixedReturned

Blended == composer_result.blended

PastesOf(c) == {i \in 1..Len(Blended) : Blended[i].base = c}

InLayerOrder(c) == \E i \in 1..Len(LAYER_ORDER) : LAYER_ORDER[i] = c
OrderRank(c) == CHOOSE i \in 1..Len(LAYER_ORDER) : LAYER_ORDER[i] = c

\* the categories of the call that both inputs have
InBothInputs(part) ==
    CustomReturned => part.category \in DOMAIN composer_call.positions

\* C16: a composition renders every category present in both the coordinate
\* model and the parts dictionary (with an image that exists) exactly once
\* per member, left and right for a symmetric placement, and blends in the
\* LAYER_ORDER depth order whatever the order of the input dictionaries.
C16_EveryCategoryOnceInOrder ==
    CustomReturned =>
        /\ \A n \in 1..Len(composer_call.parts) :
              LET part == composer_call.parts[n]
              IN  (part.status = "ok" /\ InBothInputs(part)) =>
                      LET p == composer_call.positions[part.category]
                      IN  IF IsSymmetric(p)
                          THEN \A sd \in {"left", "right"} :
                                  Cardinality({i \in PastesOf(part.category) :
                                                  Blended[i].suffix = sd}) = 1
                          ELSE Cardinality(PastesOf(part.category)) = 1
        /\ \A i, j \in 1..Len(Blended) :
              i < j => OrderRank(Blended[i].base) <= OrderRank(Blended[j].base)

\* the placement (x, y, scale) the table gives the part a paste shows
TablePlacement(paste) ==
    LET p == TableModel(canvas_center, canvas_size)[paste.base]
    IN  IF IsSymmetric(p) THEN (IF paste.mirrored THEN p.right ELSE p.left)
        ELSE p.single

\* C17: both composition paths paste each scaled part centered at its
\* placement (x, y), top-left corner (x - w//2, y - h//2): compose_face with
\* the placement table and compose_face_with_custom_positions with a model
\* equal to the table put every part at the same place.
C17_BothPathsCenterAtPlacement ==
    (\/ FixedReturned
     \/ CustomReturned /\ composer_call.positions = TableModel(canvas_center, canvas_size)) =>
        \A i \in 1..Len(Blended) :
            LET paste == Blended[i]
                t     == TablePlacement(paste)
            IN  /\ paste.left = t[1] - paste.size[1] \div 2
                /\ paste.top  = t[2] - paste.size[2] \div 2

\* C18: every call of compose_face_with_custom_positions blends exactly the
\* layers a fresh instance blends for the same model, parts and canvas, in
\* the same order, whatever calls were made on the instance before: no
\* layer of an earlier call is carried over.
C18_ComposeIsRepeatable ==
    CustomReturned =>
        LET ctx   == [path |-> "custom", positions |-> composer_call.positions]
            fresh == create_layers(<<>>, composer_call.parts, ctx)
        IN  /\ layers = fresh
            /\ composer_result = Image(_compose_layers(fresh, 1))
            /\ \A i \in 1..Len(Blended) :
                  \E n \in 1..Len(composer_call.parts) :
                      composer_call.parts[n].category = Blended[i].base

\* a second call on the instance, after a call that left layers behind
C18_Witness ==
    /\ CustomReturned
    /\ compose_calls = 2
    /\ Len(composer_call.parts) = 1
    /\ composer_call.parts[1] = [category |-> "nose", status |-> "ok"]
    /\ Len(Blended) = 1
    /\ Blended[1].base = "nose"

-----------------------------------------------------------------------------
(* Properties of the SSE stream *)

\* the worker's last notification reached the connected generator
TerminalDelivered ==
    \E i \in 1..Len(yielded) : yielded[i] \in {"finished", "error"}

StreamEnded == stream_pc = "closed" /\ ~active_streams

\* C20: the SSE stream of a session ends when its worker's loop ends: after
\* the worker's last notification, finished or error, a connected
\* stream_progress generator eventually exits and removes the session's
\* queue from active_streams, without the client disconnecting.
C20_StreamEndsWithWorker ==
    (worker_pc = "done" /\ TerminalDelivered) ~> StreamEnded

-----------------------------------------------------------------------------
(* Properties of the history and of the reported result *)

IsPrefix(a, b) == Len(a) <= Len(b) /\ SubSeq(b, 1, Len(a)) = a

\* C23: a history entry is appended exactly in the rounds whose adjustments
\* are resolved and applied: the round that ends the loop (satisfied, or no
\* adjustments) appends none, and entries are never changed or removed.
C23_HistoryOnlyWhenApplied ==
    [][/\ IsPrefix(adjustment_history, adjustment_history')
       /\ (pc = "request" /\ variant \in CliVariants) =>
             (Len(adjustment_history') = Len(adjustment_history) + 1
                 <=> pc' = "assign")]_vars

\* the loop has ended and reports a coordinate model and an image
ReportsModelAndImage ==
    /\ pc = "done"
    /\ variant \in {"iterative", "web", "hill"}
    /\ stop_reason \notin ErrorReasons
    /\ iteration_images # <<>>

\* C25: on every termination path the final image reported to the caller is
\* the composite of the final coordinate model reported to the caller, also
\* when the loop stops because the iteration budget is reached.
C25_FinalImageShowsFinalModel ==
    ReportsModelAndImage => last_rendered = Value(heap, current_positions)

-----------------------------------------------------------------------------
(* Properties of hill_climb_optimize *)

BestPositions == Value(heap, current_positions)

\* the model after the step differs from the model before it in one key only
OneKeyChanged ==
    /\ Len(last_adjustments) = 1
    /\ \A c \in DOMAIN BestPositions :
          c # last_adjustments[1].category =>
              Value(heap', current_positions')[c] = BestPositions[c]

HillStep ==
    /\ best_score' >= best_score
    \* the score rises only when a candidate is adopted, and then strictly
    /\ (pc # "hill_init" /\ best_score' # best_score) =>
          pc = "trial" /\ pc' = "assign"
    /\ (pc = "trial" /\ pc' = "assign") => best_score' > best_score
    \* the model changes only by the adopted adjustment
    /\ Value(heap', current_positions') # BestPositions =>
          /\ pc = "assign"
          /\ Value(heap', current_positions') = Value(heap, result_ref)
          /\ OneKeyChanged
    /\ pc' = "assign" => pc = "trial"
    \* the loop ends at the first round without an improvement, or at the budget
    /\ pc = "trial" => pc' \in {"assign", "report"}
    /\ (pc = "trial" /\ pc' = "report") =>
          stop_reason' = "no_improvement" /\ best_score' = best_score
    /\ (pc = "loop" /\ pc' = "report") => iteration = max_iterations
    /\ (pc = "loop" /\ pc' = "trial") => iteration < max_iterations

-----------------------------------------------------------------------------
(* Properties of the web worker's notifications *)

TerminalStatuses == {"finished", "error"}
RoundStatuses == {"composing", "iteration_image", "analyzing", "adjustment_result"}

TerminalNotes == {i \in 1..Len(emitted) : emitted[i].status \in TerminalStatuses}

\* the notification at index i is preceded by one of status st for the
\* same iteration
PrecededBy(i, st) ==
    \E j \in 1..(i - 1) :
        emitted[j].status = st /\ emitted[j].iteration = emitted[i].iteration

RoundNotesInOrder ==
    \A i \in 1..Len(emitted) :
        emitted[i].status = "adjustment_result" =>
            \E a, b, c \in 1..(i - 1) :
                /\ a < b /\ b < c
                /\ emitted[a].status = "composing"
                /\ emitted[b].status = "iteration_image"
                /\ emitted[c].status = "analyzing"
                /\ \A j \in {a, b, c} : emitted[j].iteration = emitted[i].iteration

\* over the notifications that carry an iteration number
IterationsNonDecreasing ==
    \A i, j \in 1..Len(emitted) :
        (/\ i < j
         /\ emitted[i].status \in RoundStatuses \cup {"finished"}
         /\ emitted[j].status \in RoundStatuses \cup {"finished"}) =>
            emitted[i].iteration <= emitted[j].iteration

-----------------------------------------------------------------------------
(* Properties of the spacing ops *)

\* C30: for every symmetric placement the spacing resolvers accept, whichever
\* member has the larger x, an applied closer or closer_big never increases
\* the spacing |left.x - right.x| and an applied wider or wider_big never
\* decreases it.
C30_CloserNeverWidens ==
    (ResolverReturned /\ variant \in SpacingVariants /\ Len(last_adjustments) = 1) =>
        LET e == TheEntry
        IN  (/\ e.category \in DOMAIN call_input
             /\ IsSymmetric(call_input[e.category])
             /\ e.adj.symmetrical # None
             /\ ~Skipped(variant, call_input, e)) =>
                LET old == Spacing(call_input[e.category])
                    new == Spacing(ResultPositions[e.category])
                IN  /\ e.adj.symmetrical \in {"closer", "closer_big"} => new <= old
                    /\ e.adj.symmetrical \in {"wider", "wider_big"} => new >= old

-----------------------------------------------------------------------------
(* Properties of the utility functions *)

\* every entry of the model is a triple
WellFormed(positions) ==
    \A c \in DOMAIN positions : \A side \in DOMAIN positions[c] :
        Len(positions[c][side]) = 3

\* C22: generate_initial_positions never raises when the image cannot be
\* read or no face is detected: in both cases it returns the default
\* coordinate model together with an image.
C22_FallsBackToDefaultModel ==
    (fn_call.op = "generate_initial_positions" /\ ~fn_call.has_face) =>
        /\ fn_result.kind = "return"
        /\ fn_result.positions = InitialPositions
        /\ fn_result.image # None

\* C24: CoordinateConverter round-trips: math_to_image(image_to_math(x, y))
\* is (x, y), image_to_math(math_to_image(mx, my)) is (mx, my), and for a
\* well-formed model convert_positions_to_image(convert_positions_to_math(M))
\* has the categories, sides, positions and scales of M.
C24_ConverterRoundTrips ==
    /\ fn_call.op \in {"image_to_math", "math_to_image"} =>
          fn_result.back = fn_call.args
    /\ (fn_call.op = "convert_positions_to_math" /\ WellFormed(fn_call.args)) =>
          /\ DOMAIN fn_result.back = DOMAIN fn_call.args
          /\ \A c \in DOMAIN fn_call.args :
                DOMAIN fn_result.back[c] = DOMAIN fn_call.args[c]
          /\ fn_result.back = fn_call.args

\* the default model on the 400x400 canvas: the left eye is at (25, 15)
C24_Witness ==
    /\ fn_call.op = "convert_positions_to_math"
    /\ fn_call.canvas_size = <<400, 400>>
    /\ fn_call.args = InitialPositions
    /\ fn_result.value.eye.left = <<25, -15, 20>>
    /\ fn_result.back = InitialPositions

-----------------------------------------------------------------------------
(* Properties of the delivery of notifications *)

TerminalQueued ==
    \E i \in 1..Len(stream_queue) : stream_queue[i] \in {"finished", "error"}

\* C26: for every interleaving of the worker thread and the client's later
\* GET /stream/<stream_id>, the worker's terminal notification is eventually
\* delivered to the connected consumer: once the worker has ended, a
\* connected generator has yielded it or still has it in its queue.
C26_TerminalReachesConsumer ==
    (worker_pc = "done" /\ stream_pc = "listening") =>
        TerminalDelivered \/ TerminalQueued

-----------------------------------------------------------------------------
(* Properties of concurrent sessions *)

Started == {s \in SessionNames : sessions[s].pc # "idle"}

\* every queue holds the notifications of one session, its owner
QueuesAreOwn ==
    /\ \A a, b \in Started : a # b => sessions[a].stream_id # sessions[b].stream_id
    /\ \A id \in DOMAIN all_streams : \A i \in 1..Len(all_streams[id]) :
          sessions[all_streams[id][i].from].stream_id = id

\* a step changes the locals of at most one worker, and a worker's model
\* and image list change only in a round of that worker
WorkersKeepApart ==
    /\ \A a, b \in SessionNames :
          (a # b /\ sessions'[a] # sessions[a]) => sessions'[b] = sessions[b]
    /\ \A a \in SessionNames :
          (\/ sessions'[a].positions # sessions[a].positions
           \/ sessions'[a].iteration_images # sessions[a].iteration_images) =>
              /\ sessions[a].pc = "running"
              /\ sessions'[a].round = sessions[a].round + 1

\* C21: with sessions running concurrently no state crosses session
\* boundaries: each notification of session A's worker is put only on the
\* queue registered under A's stream_id, and A's coordinate model and
\* iteration list are never changed by a step of session B's worker.
C21_SessionsAreIsolated == []QueuesAreOwn /\ [][WorkersKeepApart]_vars

\* both workers are in their rounds and both queues hold notifications
C21_Witness ==
    /\ \A s \in SessionNames :
          /\ sessions[s].kind = "refine"
          /\ sessions[s].pc = "running"
          /\ sessions[s].round > 0
          /\ sessions[s].stream_id \in DOMAIN all_streams
          /\ all_streams[sessions[s].stream_id] # <<>>

\* C28: the files written by concurrent sessions never collide: two
\* sessions handled in the same second do not write the same upload,
\* run_*.json, composed_*.png or iteration_*.png path.
C28_OutputPathsNeverCollide ==
    \A f, g \in files : f.path = g.path => f.writer = g.writer

====
